---- MODULE Spec2Model ----
(***************************************************************************)
(* Langton's Ant (src/langtons_ant.py): the engine LangtonsAnt, its        *)
(* constructor and its step rule next(), as a state machine.               *)
(*                                                                         *)
(* A grid is a Python list of rows, modelled as a sequence of sequences of *)
(* BOOLEAN; grid[i][j] of the code is Item(Item(grid, i), j) here (Python  *)
(* indices start at 0, TLA+ sequences at 1).  The rows of one grid are     *)
(* distinct list objects, as the command line builds them (lines 183-188). *)
(* A Point and a Direction are records with fields x and y.  A direction   *)
(* argument is either absent, one of the Direction constants, or some      *)
(* other value.                                                            *)
(***************************************************************************)
EXTENDS Integers, Sequences, FiniteSets

VARIABLES
    constructed,  \* TRUE when LangtonsAnt(...) returned an instance
    raised,       \* the exception the last call raised, "" when it returned
    state,        \* self.__state
    width,        \* self.__width
    height,       \* self.__height
    position,     \* self.__position
    direction,    \* self.__direction
    op,           \* history: the last operation called, "__init__" or "next"
    steps,        \* history: completed next() calls of the run (run specs only)
    visits,       \* history: visits[i][j], the completed next() calls made on cell [i][j]
    initial,      \* history: the grid as it was passed to the constructor
    twin,         \* a second, independent engine built from equal arguments
    twin_steps,   \* history: completed next() calls of the twin
    args,         \* history: the arguments the constructor was called with
    caller,       \* the list object the caller passed as initial_state, as the caller sees it
    result,       \* what the last draw() printed or position_and_direction returned
    pc,           \* run(): the statement the loop is at
    current_epoch \* run(): current_epoch of line 138

vars == <<constructed, raised, state, width, height, position, direction, op,
          steps, visits, initial, twin, twin_steps,
          args, caller, result, pc, current_epoch>>

engine == <<constructed, raised, state, width, height, position, direction>>

history == <<steps, visits, initial, twin, twin_steps>>

(* What the engine's callers hold: the constructor's arguments, the grid   *)
(* object passed in, the last output, the place in run().                  *)
scene == <<args, caller, result, pc, current_epoch>>

----------------------------------------------------------------------------
(* Bounds of the model.                                                    *)

MaxH == 3

MaxW == 2

MaxStart == 2

RunMaxDim == 3

MaxEpoch == 3

CycleDim == 3

MaxSteps == 12

----------------------------------------------------------------------------
(* Directions, lines 14-24.                                                *)

Direction(dx, dy) == [x |-> dx, y |-> dy]

Point(px, py) == [x |-> px, y |-> py]

UP == Direction(0, -1)

RIGHT == Direction(1, 0)

DOWN == Direction(0, 1)

LEFT == Direction(-1, 0)

DIRECTION_CHOICES == {UP, RIGHT, DOWN, LEFT}

----------------------------------------------------------------------------
(* Python list indexing: s[i] exists for -len(s) <= i < len(s), a negative *)
(* index counting from the end; any other index raises IndexError.         *)

HasIndex(s, i) == -Len(s) <= i /\ i < Len(s)

Item(s, i) == IF i >= 0 THEN s[i + 1] ELSE s[Len(s) + i + 1]

SetItem(s, i, v) ==
    IF i >= 0 THEN [s EXCEPT ![i + 1] = v] ELSE [s EXCEPT ![Len(s) + i + 1] = v]

(* self.__state[x][y] can be read: line 107.                               *)
CellExists(grid, x, y) == HasIndex(grid, x) /\ HasIndex(Item(grid, x), y)

Cell(grid, x, y) == Item(Item(grid, x), y)

----------------------------------------------------------------------------
(* The step rule, lines 101-113.                                           *)

(* Turn with the two rules exchanged.                                      *)
TurnSwapped(v, d) ==
    IF v THEN Direction(-d.y, d.x) ELSE Direction(d.y, -d.x)

(* Turn that never looks at the cell.                                      *)
TurnIgnoresCell(v, d) == Direction(-d.y, d.x)

(* Lines 107-110: the turn chosen from the value v read at the ant's cell. *)
Turn(v, d) ==
    IF v THEN Direction(d.y, -d.x) ELSE Direction(-d.y, d.x)

(* Flip that writes the value back unchanged.                              *)
FlipNothing(grid, x, y) == grid

(* Flip that appends the inverted value to the row instead of storing it.  *)
FlipAppend(grid, x, y) ==
    SetItem(grid, x, Append(Item(grid, x), ~Item(Item(grid, x), y)))

(* Line 111: self.__state[x][y] = not self.__state[x][y].                  *)
Flip(grid, x, y) ==
    SetItem(grid, x, SetItem(Item(grid, x), y, ~Cell(grid, x, y)))

(* Move without the wrap.                                                  *)
MoveNoWrap(p, d, w, h) == Point(p.x + d.x, p.y + d.y)

(* Lines 112-113: advance by the direction d and wrap each axis.           *)
Move(p, d, w, h) == Point((p.x + d.x) % w, (p.y + d.y) % h)

(* next() on the engine self: the engine after the call and what the call  *)
(* raised.  The read at line 107 precedes every assignment, so a call that *)
(* raises IndexError leaves the engine as it was.                          *)
next(self) ==
    LET x == self.position.x
        y == self.position.y
    IN  IF ~CellExists(self.state, x, y)
        THEN [self EXCEPT !.raised = "IndexError"]
        ELSE LET d == Turn(Cell(self.state, x, y), self.direction)
             IN  [self EXCEPT !.raised = "",
                              !.direction = d,
                              !.state = Flip(self.state, x, y),
                              !.position = Move(self.position, d, self.width, self.height)]

----------------------------------------------------------------------------
(* The accessors and the renderer, lines 74-126.                           *)

(* The property state, lines 74-79: the list object self.__state itself.   *)
state_property(self) == self.state

(* Lines 86-94: the name of the direction, "" when it is none of the four. *)
direction_text(d) ==
    IF d = UP THEN "UP"
    ELSE IF d = RIGHT THEN "RIGHT"
    ELSE IF d = DOWN THEN "DOWN"
    ELSE IF d = LEFT THEN "LEFT"
    ELSE ""

(* position_and_direction, lines 81-99: what the read raises and the list  *)
(* it returns; the list holds self.__state[x][y], read as next() reads it. *)
position_and_direction(self) ==
    IF ~CellExists(self.state, self.position.x, self.position.y)
    THEN [raised |-> "IndexError", value |-> <<>>]
    ELSE [raised |-> "",
          value |-> [position |-> self.position,
                     direction_text |-> direction_text(self.direction),
                     cell |-> Cell(self.state, self.position.x, self.position.y)]]

(* __translate, lines 149-158.                                             *)
translate(value) == IF value THEN "." ELSE " "

(* draw, lines 115-126: what it raises and the lines of final_state it     *)
(* prints (print ends the text with one more line break).  The row whose   *)
(* index is position.x gets "x" stored at index position.y, which raises   *)
(* IndexError when the row has no such index; nothing is printed then.     *)
draw(self) ==
    LET overlaid == {i \in 1..Len(self.state) : i - 1 = self.position.x}
    IN  IF \E i \in overlaid : ~HasIndex(self.state[i], self.position.y)
        THEN [raised |-> "IndexError", lines |-> <<>>]
        ELSE [raised |-> "",
              lines |-> [i \in 1..Len(self.state) |->
                            LET row == [j \in 1..Len(self.state[i]) |->
                                           translate(self.state[i][j])]
                            IN  IF i \in overlaid
                                THEN SetItem(row, self.position.y, "x")
                                ELSE row]]

----------------------------------------------------------------------------
(* The constructor, lines 33-72.                                           *)

(* An optional argument is <<>> when absent (None) and <<v>> when given.   *)
None == <<>>

Some(v) == <<v>>

NoEngine ==
    [constructed |-> FALSE, raised |-> "ValueError", state |-> <<>>,
     width |-> 0, height |-> 0, position |-> Point(0, 0), direction |-> UP]

(* StartPosition that also takes a pair of zeros for an absent argument.   *)
StartPositionZeroIsAbsent(start_position, w, h) ==
    IF /\ start_position # None
       /\ Len(start_position[1]) > 0
       /\ \E i \in 1..Len(start_position[1]) : start_position[1][i] # 0
    THEN Point(start_position[1][1] % w, start_position[1][2] % h)
    ELSE Point(w \div 2, h \div 2)

(* Lines 59-68: `if start_position:` is false for None and for an empty    *)
(* list; int(w / 2) is the floor of w / 2 for a positive w.                *)
StartPosition(start_position, w, h) ==
    IF start_position # None /\ Len(start_position[1]) > 0
    THEN Point(start_position[1][1] % w, start_position[1][2] % h)
    ELSE Point(w \div 2, h \div 2)

StartPositionRaises(start_position) ==
    /\ start_position # None
    /\ Len(start_position[1]) > 0
    /\ Len(start_position[1]) # 2

(* StartDirections without the membership test of line 69.                *)
StartDirectionsUnchecked(dir) ==
    IF dir # None THEN {dir[1]} ELSE DIRECTION_CHOICES

(* Lines 69-72: the directions the constructor may set; random.choice may  *)
(* return any of DIRECTION_CHOICES.                                        *)
StartDirections(dir) ==
    IF dir # None /\ dir[1] \in DIRECTION_CHOICES
    THEN {dir[1]}
    ELSE DIRECTION_CHOICES

(* GridRaises without the comparison of the row lengths, lines 53-57.      *)
GridRaisesFirstRowOnly(initial_state) ==
    \/ Len(initial_state) = 0
    \/ Len(initial_state[1]) = 0

(* Lines 45-57: the grid checks.                                           *)
GridRaises(initial_state) ==
    \/ Len(initial_state) = 0
    \/ Len(initial_state[1]) = 0
    \/ \E i \in 1..Len(initial_state) : Len(initial_state[i]) # Len(initial_state[1])

(* LangtonsAnt(initial_state, start_position, direction) with d the        *)
(* direction chosen at lines 69-72.                                        *)
__init__(initial_state, start_position, d) ==
    IF GridRaises(initial_state) \/ StartPositionRaises(start_position)
    THEN NoEngine
    ELSE LET h == Len(initial_state)
             w == Len(initial_state[1])
         IN  [constructed |-> TRUE, raised |-> "", state |-> initial_state,
              width |-> w, height |-> h,
              position |-> StartPosition(start_position, w, h),
              direction |-> d]

----------------------------------------------------------------------------
(* The arguments the model constructs engines from.                        *)

RectGrids(maxh, maxw) ==
    UNION {[1..h -> [1..w -> BOOLEAN]] : <<h, w>> \in (1..maxh) \X (1..maxw)}

(* Every shape of at most maxh rows of at most maxw cells, all cells off:  *)
(* the empty grid, grids of empty rows, ragged grids.                      *)
ShapeGrids(maxh, maxw) ==
    UNION {{[i \in 1..h |-> [j \in 1..lens[i] |-> FALSE]] : lens \in [1..h -> 0..maxw]}
           : h \in 0..maxh}

UniformGrids(maxh, maxw) ==
    {[i \in 1..h |-> [j \in 1..w |-> v]] : <<h, w, v>> \in (1..maxh) \X (1..maxw) \X BOOLEAN}

StartCoords == -1..MaxStart

StartInputs ==
    {None, Some(<<>>), Some(<<0>>), Some(<<0, 0, 0>>)}
        \cup {Some(<<sx, sy>>) : <<sx, sy>> \in StartCoords \X StartCoords}

DirectionInputs == {None, Some(Direction(1, 1))} \cup {Some(d) : d \in DIRECTION_CHOICES}

(* A Python list given as the direction, the form the docstring of line 43 *)
(* names: a list is never equal to a Direction tuple, so it is no member   *)
(* of DIRECTION_CHOICES at line 69.                                        *)
List(elements) == [list |-> elements]

DirectionArgs == DirectionInputs \cup {Some(List(<<d.x, d.y>>)) : d \in DIRECTION_CHOICES}

Self ==
    [constructed |-> constructed, raised |-> raised, state |-> state,
     width |-> width, height |-> height, position |-> position,
     direction |-> direction]

Becomes(e) ==
    /\ constructed' = e.constructed
    /\ raised' = e.raised
    /\ state' = e.state
    /\ width' = e.width
    /\ height' = e.height
    /\ position' = e.position
    /\ direction' = e.direction

Is(e) ==
    /\ constructed = e.constructed
    /\ raised = e.raised
    /\ state = e.state
    /\ width = e.width
    /\ height = e.height
    /\ position = e.position
    /\ direction = e.direction

NoHistory ==
    /\ steps = 0
    /\ visits = <<>>
    /\ initial = <<>>
    /\ twin = NoEngine
    /\ twin_steps = 0

NoScene ==
    /\ args = <<>>
    /\ caller = <<>>
    /\ result = <<>>
    /\ pc = ""
    /\ current_epoch = 0

----------------------------------------------------------------------------
(* Spec: every engine the constructor accepts or rejects, stepped any      *)
(* number of times.  Its only operation after construction is next().      *)

Init ==
    /\ \E initial_state \in RectGrids(MaxH, MaxW) \cup ShapeGrids(MaxH, MaxW),
          start_position \in StartInputs,
          dir \in DirectionInputs :
          \E d \in StartDirections(dir) :
              Is(__init__(initial_state, start_position, d))
    /\ op = "__init__"
    /\ NoHistory
    /\ NoScene

(* One call of next() on a constructed engine.                             *)
Step ==
    /\ constructed
    /\ Becomes(next(Self))
    /\ op' = "next"
    /\ UNCHANGED <<history, scene>>

Next == Step

Spec == Init /\ [][Next]_vars

----------------------------------------------------------------------------
(* SpecRun: two engines built from equal arguments (a uniform grid, any    *)
(* start position, an explicit direction), each stepped on its own up to   *)
(* MaxSteps times, with the history of the first one's visits.             *)

Zeros(grid) == [i \in 1..Len(grid) |-> [j \in 1..Len(grid[i]) |-> 0]]

InitRun ==
    /\ \E initial_state \in UniformGrids(RunMaxDim, RunMaxDim),
          start_position \in StartInputs,
          d \in DIRECTION_CHOICES :
          /\ Is(__init__(initial_state, start_position, d))
          /\ twin = __init__(initial_state, start_position, d)
          /\ initial = initial_state
          /\ visits = Zeros(initial_state)
    /\ constructed
    /\ op = "__init__"
    /\ steps = 0
    /\ twin_steps = 0
    /\ NoScene

(* StepRun with the new direction drawn at random, as line 72 draws the    *)
(* first one.                                                              *)
StepRunRandom ==
    /\ constructed
    /\ steps < MaxSteps
    /\ \E d \in DIRECTION_CHOICES :
           Becomes([next(Self) EXCEPT !.direction = d])
    /\ op' = "next"
    /\ steps' = steps + 1
    /\ UNCHANGED <<visits, initial, twin, twin_steps, scene>>

(* One call of next() on the first engine; the call is a visit of the cell *)
(* it reads.                                                               *)
StepRun ==
    /\ constructed
    /\ steps < MaxSteps
    /\ Becomes(next(Self))
    /\ op' = "next"
    /\ steps' = steps + 1
    /\ visits' = IF CellExists(state, position.x, position.y)
                 THEN SetItem(visits, position.x,
                              SetItem(Item(visits, position.x), position.y,
                                      Cell(visits, position.x, position.y) + 1))
                 ELSE visits
    /\ UNCHANGED <<initial, twin, twin_steps, scene>>

(* One call of next() on the twin.                                         *)
StepTwin ==
    /\ twin.constructed
    /\ twin_steps < MaxSteps
    /\ twin' = next(twin)
    /\ twin_steps' = twin_steps + 1
    /\ UNCHANGED <<engine, op, steps, visits, initial, scene>>

NextRun == StepRun \/ StepTwin

SpecRun == InitRun /\ [][NextRun]_vars

----------------------------------------------------------------------------
(* SpecArgs: the constructor called with every kind of argument (every     *)
(* shape of grid, malformed start positions, directions given as Direction *)
(* constants, as lists or not at all), the arguments kept, and the first   *)
(* next() of the engine it returned.                                       *)

InitArgs ==
    /\ \E initial_state \in ShapeGrids(MaxH, MaxW) \cup UniformGrids(MaxH, MaxW),
          start_position \in StartInputs,
          dir \in DirectionArgs :
          \E d \in StartDirections(dir) :
              /\ Is(__init__(initial_state, start_position, d))
              /\ args = [initial_state |-> initial_state,
                         start_position |-> start_position,
                         direction |-> dir]
              /\ caller = initial_state
    /\ op = "__init__"
    /\ NoHistory
    /\ result = <<>>
    /\ pc = ""
    /\ current_epoch = 0

(* The first next() of the new engine; line 58 made self.__state the       *)
(* caller's list object, so the write of line 111 is a write to it.        *)
StepArgs ==
    /\ constructed
    /\ steps = 0
    /\ Becomes(next(Self))
    /\ caller' = state'
    /\ op' = "next"
    /\ steps' = 1
    /\ UNCHANGED <<visits, initial, twin, twin_steps, args, result, pc, current_epoch>>

NextArgs == StepArgs

SpecArgs == InitArgs /\ [][NextArgs]_vars

----------------------------------------------------------------------------
(* SpecUse: an engine in the hands of its caller, who calls next(), draw() *)
(* and position_and_direction in any order and writes cells of the grid it *)
(* passed to the constructor or got from the property state.               *)

InitUse ==
    /\ \E initial_state \in RectGrids(MaxH, MaxW),
          start_position \in StartInputs,
          dir \in DirectionInputs :
          \E d \in StartDirections(dir) :
              Is(__init__(initial_state, start_position, d))
    /\ constructed
    /\ caller = state
    /\ op = "__init__"
    /\ NoHistory
    /\ args = <<>>
    /\ result = <<>>
    /\ pc = ""
    /\ current_epoch = 0

(* next(); self.__state is the caller's list object (line 58), so the      *)
(* write of line 111 shows in it.                                          *)
StepUse ==
    /\ Becomes(next(Self))
    /\ caller' = state'
    /\ op' = "next"
    /\ result' = <<>>
    /\ UNCHANGED <<history, args, pc, current_epoch>>

Draw ==
    /\ result' = draw(Self)
    /\ raised' = result'.raised
    /\ op' = "draw"
    /\ UNCHANGED <<constructed, state, width, height, position, direction,
                   history, args, caller, pc, current_epoch>>

PositionAndDirection ==
    /\ result' = position_and_direction(Self)
    /\ raised' = result'.raised
    /\ op' = "position_and_direction"
    /\ UNCHANGED <<constructed, state, width, height, position, direction,
                   history, args, caller, pc, current_epoch>>

(* The caller stores v at [i][j] of its grid, or of state_property(Self):  *)
(* both are the list object the engine reads.                              *)
CallerWrite ==
    /\ \E i \in 0..(Len(caller) - 1), v \in BOOLEAN :
           \E j \in 0..(Len(Item(caller, i)) - 1) :
               /\ caller' = SetItem(caller, i, SetItem(Item(caller, i), j, v))
               /\ state' = SetItem(state_property(Self), i,
                                   SetItem(Item(state_property(Self), i), j, v))
    /\ op' = "write"
    /\ raised' = ""
    /\ result' = <<>>
    /\ UNCHANGED <<constructed, width, height, position, direction,
                   history, args, pc, current_epoch>>

NextUse == StepUse \/ Draw \/ PositionAndDirection \/ CallerWrite

SpecUse == InitUse /\ [][NextUse]_vars

----------------------------------------------------------------------------
(* SpecLoop: run(delay, epoch, clear_each_step), lines 128-147, statement  *)
(* by statement, next() included (lines 106-113), with a KeyboardInterrupt *)
(* that may arrive before any statement.  twin is the engine as it was     *)
(* constructed and is never stepped.  At pc = "for" current_epoch is the   *)
(* value the for statement takes next.                                     *)

InitLoop ==
    /\ \E initial_state \in UniformGrids(RunMaxDim, RunMaxDim),
          start_position \in StartInputs,
          d \in DIRECTION_CHOICES :
          /\ Is(__init__(initial_state, start_position, d))
          /\ twin = __init__(initial_state, start_position, d)
    /\ constructed
    /\ \E epoch \in 0..MaxEpoch, clear_each_step \in BOOLEAN :
           args = [epoch |-> epoch, clear_each_step |-> clear_each_step]
    /\ op = "__init__"
    /\ steps = 0
    /\ visits = <<>>
    /\ initial = <<>>
    /\ twin_steps = 0
    /\ caller = <<>>
    /\ result = [tick |-> 0, raised |-> "", lines |-> <<>>]
    /\ pc = "for"
    /\ current_epoch = 0

InBody == pc \in {"clear", "print", "draw", "sleep", "next", "line111", "line112", "line113"}

(* Line 138: the next value of range(epoch), or the end of the loop.       *)
For ==
    /\ pc = "for"
    /\ pc' = IF current_epoch < args.epoch
             THEN (IF args.clear_each_step THEN "clear" ELSE "print")
             ELSE "returned"
    /\ UNCHANGED <<engine, op, history, args, caller, result, current_epoch>>

(* Lines 140-141: the screen is cleared.                                   *)
Clear ==
    /\ pc = "clear"
    /\ pc' = "print"
    /\ UNCHANGED <<engine, op, history, args, caller, result, current_epoch>>

(* Line 142: the header with the tick number current_epoch + 1.            *)
PrintHeader ==
    /\ pc = "print"
    /\ result' = [tick |-> current_epoch + 1, raised |-> "", lines |-> <<>>]
    /\ pc' = "draw"
    /\ UNCHANGED <<engine, op, history, args, caller, current_epoch>>

(* Line 143: the frame; an IndexError of draw() is not caught by line 146. *)
DrawFrame ==
    /\ pc = "draw"
    /\ LET frame == draw(Self)
       IN  /\ result' = [tick |-> result.tick, raised |-> frame.raised,
                         lines |-> frame.lines]
           /\ raised' = frame.raised
           /\ pc' = IF frame.raised = "" THEN "sleep" ELSE "raised"
    /\ op' = "draw"
    /\ UNCHANGED <<constructed, state, width, height, position, direction,
                   history, args, caller, current_epoch>>

(* Line 144.                                                               *)
Sleep ==
    /\ pc = "sleep"
    /\ pc' = "next"
    /\ UNCHANGED <<engine, op, history, args, caller, result, current_epoch>>

(* Lines 106-110 of next(): the read of the cell and the turn; an          *)
(* IndexError of the read is not caught by line 146.                       *)
Line107 ==
    /\ pc = "next"
    /\ IF CellExists(state, position.x, position.y)
       THEN /\ direction' = Turn(Cell(state, position.x, position.y), direction)
            /\ raised' = ""
            /\ pc' = "line111"
       ELSE /\ direction' = direction
            /\ raised' = "IndexError"
            /\ pc' = "raised"
    /\ UNCHANGED <<constructed, state, width, height, position, op,
                   history, args, caller, result, current_epoch>>

(* Line 111 of next().                                                     *)
Line111 ==
    /\ pc = "line111"
    /\ state' = Flip(state, position.x, position.y)
    /\ pc' = "line112"
    /\ UNCHANGED <<constructed, raised, width, height, position, direction, op,
                   history, args, caller, result, current_epoch>>

(* Line 112 of next().                                                     *)
Line112 ==
    /\ pc = "line112"
    /\ position' = [position EXCEPT !.x = Move(position, direction, width, height).x]
    /\ pc' = "line113"
    /\ UNCHANGED <<constructed, raised, state, width, height, direction, op,
                   history, args, caller, result, current_epoch>>

(* Line 113 of next(); next() returns and the loop goes on.                *)
Line113 ==
    /\ pc = "line113"
    /\ position' = [position EXCEPT !.y = Move(position, direction, width, height).y]
    /\ op' = "next"
    /\ steps' = steps + 1
    /\ current_epoch' = current_epoch + 1
    /\ pc' = "for"
    /\ UNCHANGED <<constructed, raised, state, width, height, direction,
                   visits, initial, twin, twin_steps, args, caller, result>>

(* A KeyboardInterrupt: inside the try of lines 139-145 it is caught and   *)
(* line 147 exits; at the for statement nothing catches it.                *)
Interrupt ==
    /\ pc = "for" \/ InBody
    /\ pc' = IF InBody THEN "exit" ELSE "interrupted"
    /\ UNCHANGED <<engine, op, history, args, caller, result, current_epoch>>

NextLoop ==
    \/ For \/ Clear \/ PrintHeader \/ DrawFrame \/ Sleep
    \/ Line107 \/ Line111 \/ Line112 \/ Line113
    \/ Interrupt

SpecLoop == InitLoop /\ [][NextLoop]_vars

----------------------------------------------------------------------------
(* SpecCycle: an engine on a square uniform grid whose caller goes on      *)
(* calling next() for ever.  twin is the engine as it was constructed and  *)
(* is never stepped.                                                       *)

InitCycle ==
    /\ \E initial_state \in UniformGrids(CycleDim, CycleDim),
          start_position \in StartInputs,
          d \in DIRECTION_CHOICES :
          /\ Len(initial_state) = Len(initial_state[1])
          /\ Is(__init__(initial_state, start_position, d))
          /\ twin = __init__(initial_state, start_position, d)
    /\ constructed
    /\ op = "__init__"
    /\ steps = 0
    /\ visits = <<>>
    /\ initial = <<>>
    /\ twin_steps = 0
    /\ NoScene

StepCycle ==
    /\ Becomes(next(Self))
    /\ op' = "next"
    /\ UNCHANGED <<history, scene>>

NextCycle == StepCycle

SpecCycle == InitCycle /\ [][NextCycle]_vars /\ WF_vars(StepCycle)

----------------------------------------------------------------------------
(* The claims.                                                             *)

(* The cell behind the ant: the one the last completed next() left.        *)
Behind == Point((position.x - direction.x) % width, (position.y - direction.y) % height)

(* C1: toroidal containment.  For every constructed engine, whatever the   *)
(* grid's shape, the start position and the direction, and after any       *)
(* number of next() calls, 0 <= x < W and 0 <= y < H, W being the row      *)
(* length and H the number of rows.                                        *)
C1_PositionInBounds ==
    constructed =>
        /\ height = Len(state)
        /\ \A i \in 1..Len(state) : width = Len(state[i])
        /\ 0 <= position.x /\ position.x < width
        /\ 0 <= position.y /\ position.y < height

(* A completed step that went RIGHT off the last column of a 2x2 grid.     *)
C1_Witness ==
    /\ constructed /\ op = "next" /\ raised = ""
    /\ width = 2 /\ height = 2
    /\ direction = [x |-> 1, y |-> 0]
    /\ position.x = 0

(* C2: next() never fails.  For every constructed engine, non-square grids *)
(* included, no call of next() raises: the cell state[x][y] it reads       *)
(* always exists.                                                          *)
C2_NextNeverFails ==
    constructed => raised # "IndexError"

(* The start of the scenario of C3: a 3x3 all-off grid, the ant just       *)
(* constructed at (0,0) heading UP (0,-1).                                 *)
C3_ScenarioStart ==
    /\ constructed /\ op = "__init__" /\ steps = 0
    /\ state = <<<<FALSE, FALSE, FALSE>>, <<FALSE, FALSE, FALSE>>, <<FALSE, FALSE, FALSE>>>>
    /\ position = [x |-> 0, y |-> 0]
    /\ direction = [x |-> 0, y |-> -1]

(* C3, as claimed: on a 3x3 all-off grid with the ant constructed at (0,0) *)
(* heading UP, one next() leaves cell (0,0) on, the direction LEFT and the *)
(* position (2,0).                                                         *)
C3_WrapScenarioAsClaimed ==
    [][(C3_ScenarioStart /\ steps' = 1) =>
           /\ state' = <<<<TRUE, FALSE, FALSE>>, <<FALSE, FALSE, FALSE>>, <<FALSE, FALSE, FALSE>>>>
           /\ direction' = [x |-> -1, y |-> 0]
           /\ position' = [x |-> 2, y |-> 0]]_vars

(* C3, amended: on a 3x3 all-off grid with the ant constructed at (0,0)    *)
(* heading UP, one next() leaves cell (0,0) on, the direction RIGHT (1,0), *)
(* which is (-oldY, oldX), and the position (1,0).                         *)
C3_WrapScenario ==
    [][(C3_ScenarioStart /\ steps' = 1) =>
           /\ raised' = ""
           /\ state' = <<<<TRUE, FALSE, FALSE>>, <<FALSE, FALSE, FALSE>>, <<FALSE, FALSE, FALSE>>>>
           /\ direction' = [x |-> 1, y |-> 0]
           /\ position' = [x |-> 1, y |-> 0]]_vars

(* The state the scenario ends in: one step made, only cell (0,0) on.      *)
C3_Witness ==
    /\ constructed /\ op = "next" /\ steps = 1 /\ twin_steps = 0
    /\ initial = <<<<FALSE, FALSE, FALSE>>, <<FALSE, FALSE, FALSE>>, <<FALSE, FALSE, FALSE>>>>
    /\ state = <<<<TRUE, FALSE, FALSE>>, <<FALSE, FALSE, FALSE>>, <<FALSE, FALSE, FALSE>>>>
    /\ position = [x |-> 1, y |-> 0]
    /\ direction = [x |-> 1, y |-> 0]

(* C4: the turn rule.  Every next() that reads the value v of the ant's    *)
(* cell sets the direction to (oldY, -oldX) when v is true and to          *)
(* (-oldY, oldX) when v is false, v being the value before the flip.       *)
C4_TurnRule ==
    [][(constructed /\ op' = "next" /\ CellExists(state, position.x, position.y)) =>
           direction' = IF Cell(state, position.x, position.y)
                        THEN [x |-> direction.y, y |-> -direction.x]
                        ELSE [x |-> -direction.y, y |-> direction.x]]_vars

(* A completed step whose cell was on (it is off behind the ant), so the   *)
(* on-rule turned the ant.                                                 *)
C4_Witness ==
    /\ constructed /\ op = "next" /\ raised = ""
    /\ height = 3 /\ width = 2
    /\ CellExists(state, Behind.x, Behind.y)
    /\ ~Cell(state, Behind.x, Behind.y)

(* C5: flip and frame.  Each next() inverts exactly one grid cell, the     *)
(* cell state[x][y] the ant occupied before the call, and leaves every     *)
(* other cell, the shape and the dimensions unchanged.                     *)
C5_FlipsExactlyOneCell ==
    [][(constructed /\ op' = "next") =>
           /\ CellExists(state, position.x, position.y)
           /\ width' = width /\ height' = height /\ constructed'
           /\ Len(state') = Len(state)
           /\ \A i \in 1..Len(state) :
                  /\ Len(state'[i]) = Len(state[i])
                  /\ \A j \in 1..Len(state[i]) :
                         state'[i][j] = IF i = position.x + 1 /\ j = position.y + 1
                                        THEN ~state[i][j]
                                        ELSE state[i][j]]_vars

(* C6: the move rule.  After next() the position is                        *)
(* ((oldX + d.x) mod W, (oldY + d.y) mod H), d being the direction after   *)
(* the turn of that same call.                                             *)
C6_MoveRule ==
    [][(constructed /\ op' = "next") =>
           position' = [x |-> (position.x + direction'.x) % width,
                        y |-> (position.y + direction'.y) % height]]_vars

(* C7: direction closure.  After construction and after any number of      *)
(* next() calls the direction is one of UP(0,-1), RIGHT(1,0), DOWN(0,1),   *)
(* LEFT(-1,0).                                                             *)
C7_DirectionClosed ==
    constructed =>
        direction \in {[x |-> 0, y |-> -1], [x |-> 1, y |-> 0],
                       [x |-> 0, y |-> 1], [x |-> -1, y |-> 0]}

(* A completed step whose cell was off (it is on behind the ant) and that  *)
(* turned the ant to LEFT.                                                 *)
C7_Witness ==
    /\ constructed /\ op = "next" /\ raised = ""
    /\ direction = [x |-> -1, y |-> 0]
    /\ CellExists(state, Behind.x, Behind.y)
    /\ Cell(state, Behind.x, Behind.y)

C9_TurnsAlternate ==
    [][(constructed /\ steps' = steps + 1 /\ CellExists(state, position.x, position.y)) =>
           LET n == Cell(visits, position.x, position.y)
               on == (Cell(initial, position.x, position.y) # (n % 2 = 1))
           IN  /\ direction' = IF on
                               THEN [x |-> direction.y, y |-> -direction.x]
                               ELSE [x |-> -direction.y, y |-> direction.x]
               /\ Cell(state', position.x, position.y) = ~on
               /\ \A i \in 1..Len(state') : \A j \in 1..Len(state'[i]) :
                      state'[i][j] = (initial[i][j] # (visits'[i][j] % 2 = 1))]_vars

(* A cell of an all-off 3x3 grid visited twice and off again.              *)
C9_Witness ==
    /\ constructed /\ raised = ""
    /\ height = 3 /\ width = 3
    /\ \A i \in 1..3 : \A j \in 1..3 : ~initial[i][j]
    /\ \E i \in 1..3 : \E j \in 1..3 : visits[i][j] = 2 /\ ~state[i][j]

(* C10: shape immutability.  After any next() the grid has as many rows    *)
(* as at construction, every row as many cells, and the width and height   *)
(* used for wrapping are those of construction.                            *)
C10_ShapeImmutable ==
    [][(constructed /\ op' = "next") =>
           /\ width' = width /\ height' = height
           /\ Len(state') = Len(state)
           /\ \A i \in 1..Len(state) : Len(state'[i]) = Len(state[i])
           /\ Len(state') = height
           /\ \A i \in 1..Len(state') : Len(state'[i]) = width]_vars

(* A completed step on a grid of 3 rows of 2 cells.                        *)
C10_Witness ==
    /\ constructed /\ op = "next" /\ raised = ""
    /\ Len(state) = 3
    /\ \A i \in 1..3 : Len(state[i]) = 2
    /\ position.y = 1

(* A grid the constructor is to reject: no rows, an empty first row, or a  *)
(* row whose length is not the first row's.                                *)
InvalidGrid(grid) ==
    \/ grid = <<>>
    \/ grid[1] = <<>>
    \/ \E i \in 2..Len(grid) : Len(grid[i]) # Len(grid[1])

(* C11: a malformed start position is rejected.  Construction with a start *)
(* position of zero, one, three or more components raises ValueError and   *)
(* yields no engine.                                                       *)
C11_MalformedStartRejected ==
    (args.start_position # <<>> /\ Len(args.start_position[1]) # 2) =>
        (~constructed /\ raised = "ValueError")

(* C12: grid validation.  Construction with a grid of zero rows, with an   *)
(* empty first row or with a row of another length than the first raises   *)
(* ValueError, yields no engine and leaves the caller's grid as it was.    *)
C12_InvalidGridRejected ==
    InvalidGrid(args.initial_state) =>
        /\ ~constructed
        /\ raised = "ValueError"
        /\ caller = args.initial_state

(* The constructor called with rows of lengths 1 and 2.                    *)
C12_Witness ==
    /\ op = "__init__"
    /\ args.initial_state = <<<<FALSE>>, <<FALSE, FALSE>>>>
    /\ args.start_position = <<>>
    /\ ~constructed

(* C13: start position reduction.  For a valid grid and any pair (sx, sy)  *)
(* of integers, negative ones and ones beyond the dimensions included,     *)
(* construction succeeds and the position is the pair reduced modulo W and *)
(* H to 0..W-1 and 0..H-1; the pair (0, 0) gives (0, 0), not the centre.   *)
C13_StartReduced ==
    (/\ op = "__init__"
     /\ ~InvalidGrid(args.initial_state)
     /\ args.start_position # <<>>
     /\ Len(args.start_position[1]) = 2) =>
        LET sx == args.start_position[1][1]
            sy == args.start_position[1][2]
            W == Len(args.initial_state[1])
            H == Len(args.initial_state)
            K == -(MaxStart + 2)..(MaxStart + 2)
        IN  /\ constructed /\ raised = ""
            /\ 0 <= position.x /\ position.x < W
            /\ 0 <= position.y /\ position.y < H
            /\ \E k \in K : sx = position.x + k * W
            /\ \E k \in K : sy = position.y + k * H
            /\ (sx = 0 /\ sy = 0) => position = [x |-> 0, y |-> 0]

(* The start (-1, 2) on a 2x2 grid, reduced to (1, 0).                     *)
C13_Witness ==
    /\ op = "__init__" /\ constructed
    /\ args.start_position = <<<<-1, 2>>>>
    /\ width = 2 /\ height = 2
    /\ position = [x |-> 1, y |-> 0]

(* The vector a direction argument stands for, whether it is given as a    *)
(* Direction or as the list [x, y]; <<>> when it is absent or no vector.   *)
C14_VectorOf(dir) ==
    IF dir = <<>> THEN <<>>
    ELSE IF "list" \in DOMAIN dir[1]
         THEN IF Len(dir[1].list) = 2
              THEN <<[x |-> dir[1].list[1], y |-> dir[1].list[2]]>>
              ELSE <<>>
         ELSE <<dir[1]>>

(* C14: the initial direction.  Given a direction equal to one of the four *)
(* enumerated vectors, the direction right after construction is that      *)
(* vector; given none or another value, it is some one of the four.        *)
C14_InitialDirection ==
    (op = "__init__" /\ constructed) =>
        LET four == {[x |-> 0, y |-> -1], [x |-> 1, y |-> 0],
                     [x |-> 0, y |-> 1], [x |-> -1, y |-> 0]}
            v == C14_VectorOf(args.direction)
        IN  IF v # <<>> /\ v[1] \in four
            THEN direction = v[1]
            ELSE direction \in four

(* C15: position_and_direction has no failure modes and is read-only.  In  *)
(* every state of a constructed engine it returns the position, a name     *)
(* among UP, RIGHT, DOWN, LEFT and the value of the cell the next next()   *)
(* reads, and leaves the engine as it was.                                 *)
C15_AgentStateTotal ==
    [][(op' = "position_and_direction") =>
           /\ raised' = ""
           /\ result'.value.position = position
           /\ result'.value.direction_text \in {"UP", "RIGHT", "DOWN", "LEFT"}
           /\ result'.value.cell = state[position.x + 1][position.y + 1]
           /\ state' = state /\ position' = position /\ direction' = direction
           /\ width' = width /\ height' = height]_vars

(* C18: rendering.  In every state of a constructed engine draw() succeeds *)
(* and prints H lines of W glyphs with exactly one ant glyph, on the cell  *)
(* state[x][y] that next() reads and position_and_direction reports.       *)
C18_DrawShowsAnt ==
    [][(op' = "draw") =>
           /\ raised' = ""
           /\ Len(result'.lines) = height
           /\ \A i \in 1..Len(result'.lines) : Len(result'.lines[i]) = width
           /\ \A i \in 1..Len(result'.lines) : \A j \in 1..Len(result'.lines[i]) :
                  (result'.lines[i][j] = "x") <=>
                      (i = position.x + 1 /\ j = position.y + 1)
           /\ \E i \in 1..Len(result'.lines) : \E j \in 1..Len(result'.lines[i]) :
                  result'.lines[i][j] = "x"]_vars

(* C19: exclusive ownership of the grid.  A write by the caller to the     *)
(* grid it passed to the constructor, or to the object state returns, does *)
(* not change the cells the engine reads, and next() does not change the   *)
(* caller's grid.                                                          *)
C19_ExclusiveOwnership ==
    [][/\ (op' = "write") => (state' = state)
       /\ (op' = "next") => (caller' = caller)]_vars

(* The grid, position and direction of an engine.                          *)
Configuration(e) == [state |-> e.state, position |-> e.position, direction |-> e.direction]

(* The engine e after n complete next() calls.                             *)
RECURSIVE AfterSteps(_, _)
AfterSteps(e, n) == IF n = 0 THEN e ELSE AfterSteps(next(e), n - 1)

(* The configurations complete next() calls lead to from the engine e.     *)
RECURSIVE WholeSteps(_, _)
WholeSteps(e, seen) ==
    IF Configuration(e) \in seen
    THEN seen
    ELSE WholeSteps(next(e), seen \cup {Configuration(e)})

(* C16: interrupt safety of run().  An interrupt arriving at any point of  *)
(* run() ends the loop, and the engine is then in a state reached by a     *)
(* whole number of complete next() calls.                                  *)
C16_InterruptLeavesWholeSteps ==
    (pc \in {"exit", "interrupted"}) =>
        Configuration(Self) \in WholeSteps(twin, {})

(* C17: run loop ordering and termination.  Without an interrupt run()     *)
(* with tick count N ends after exactly N ticks and by no exception; the   *)
(* frame of tick k shows the state after exactly k-1 complete next()       *)
(* calls, and on return exactly N have been applied.                       *)
C17_RunTicks ==
    /\ pc # "raised"
    /\ (pc = "sleep") =>
           /\ result.tick = steps + 1
           /\ result.lines = draw(AfterSteps(twin, result.tick - 1)).lines
    /\ (pc = "returned") =>
           /\ steps = args.epoch
           /\ Configuration(Self) = Configuration(AfterSteps(twin, args.epoch))
           /\ (args.epoch > 0) => (result.tick = args.epoch)

(* The configuration before the next() that led to grid, p, d on a w x h   *)
(* torus: one cell back against d, that cell flipped again, the turn       *)
(* undone by the rule of the value the cell had.                           *)
C20_Back(grid, p, d, w, h) ==
    LET bx == (p.x - d.x) % w
        by == (p.y - d.y) % h
        v == ~grid[bx + 1][by + 1]
    IN  [state |-> [grid EXCEPT ![bx + 1][by + 1] = v],
         position |-> [x |-> bx, y |-> by],
         direction |-> IF v THEN [x |-> -d.y, y |-> d.x]
                            ELSE [x |-> d.y, y |-> -d.x]]

(* C20: reversibility.  On a square grid every next() is undone by         *)
(* stepping back against the direction, flipping that cell again and       *)
(* undoing the turn, so no two states have the same successor; and every   *)
(* run comes back to its exact initial state again and again.              *)
C20_Reversible ==
    /\ [][(op' = "next") =>
              /\ raised' = ""
              /\ C20_Back(state', position', direction', width, height)
                     = [state |-> state, position |-> position, direction |-> direction]]_vars
    /\ []<>(/\ state = twin.state
            /\ position = twin.position
            /\ direction = twin.direction)

(* A run on a 3x3 grid back in its initial state after some next() calls.  *)
C20_Witness ==
    /\ op = "next" /\ raised = ""
    /\ width = 3 /\ height = 3
    /\ state = twin.state
    /\ position = twin.position
    /\ direction = twin.direction

====
